---- MODULE Spec2Model ----
(***************************************************************************)
(* A model of THcTrigDet (src/src/THcTrigDet.cxx): the mock detector that  *)
(* holds trigger data in five fixed-capacity arrays, filled by Decode from *)
(* the raw hit list of one event, reset by Clear and published to the      *)
(* analyzer's variable list by DefineVariables.                             *)
(*                                                                         *)
(* Double_t values are only ever copied, never computed with, so they are  *)
(* modelled by integers (-1 is the sentinel -1.0, 0 is 0.0).               *)
(***************************************************************************)
EXTENDS Integers, Sequences, FiniteSets, TLC

VARIABLES
    fStatus,          \* THaAnalysisObject::fStatus
    fIsSetup,         \* THaAnalysisObject::fIsSetup
    fNumAdc, fNumTdc, \* channel counts read from the parameter file
    fAdcNames, fTdcNames,
    fAdcVal, fAdcPedestal, fAdcMultiplicity,
    fTdcVal, fTdcMultiplicity,
    fVarsDefined,     \* DefineVariables handed its RVarDef list to DefineVarsFromList
    build,            \* what this build does with a store past an array's end
    crashed,          \* the process was killed by such a store
    lastCall,         \* the member function that ran last
    prevCall,         \* the member function that ran before it
    lastHits,         \* fRawHitList of the last Decode
    lastOutcome,      \* how the last call ended
    lastReturn,       \* the Int_t the last Decode returned
    nEvents           \* Decode calls so far

vars == << fStatus, fIsSetup, fNumAdc, fNumTdc, fAdcNames, fTdcNames,
           fAdcVal, fAdcPedestal, fAdcMultiplicity, fTdcVal, fTdcMultiplicity,
           fVarsDefined, build, crashed, lastCall, prevCall, lastHits, lastOutcome, lastReturn,
           nEvents >>

(***************************************************************************)
(* Program constants.                                                      *)
(***************************************************************************)
fMaxAdcChannels == 100
fMaxTdcChannels == 100

(***************************************************************************)
(* Bounds of the model.                                                    *)
(***************************************************************************)
MaxHits == 2      \* hits in one event
MaxEvents == 2    \* Decode calls in one run

(***************************************************************************)
(* The store: the five arrays, in the order the class declares them (the   *)
(* order of the constructor's initializer list).                           *)
(***************************************************************************)
Arrays == << "fAdcVal", "fAdcPedestal", "fAdcMultiplicity",
             "fTdcVal", "fTdcMultiplicity" >>

ArrayNames == { Arrays[k] : k \in 1..Len(Arrays) }

Capacity == [ a \in ArrayNames |->
                IF a \in { "fTdcVal", "fTdcMultiplicity" }
                THEN fMaxTdcChannels ELSE fMaxAdcChannels ]

RECURSIVE Offset(_)
\* Offset, in elements, of array number k from the first array.
Offset(k) == IF k = 1 THEN 0 ELSE Offset(k - 1) + Capacity[Arrays[k - 1]]

Base == [ a \in ArrayNames |-> Offset(CHOOSE k \in 1..Len(Arrays) : Arrays[k] = a) ]

ObjectEnd == Base[Arrays[Len(Arrays)]] + Capacity[Arrays[Len(Arrays)]]

\* The array that holds element number flat of the five, counted from the
\* first element of the first.
ArrayAt == [ flat \in 0..(ObjectEnd - 1) |->
               CHOOSE a \in ArrayNames : Base[a] <= flat /\ flat < Base[a] + Capacity[a] ]

Store == [ fAdcVal |-> fAdcVal, fAdcPedestal |-> fAdcPedestal,
           fAdcMultiplicity |-> fAdcMultiplicity,
           fTdcVal |-> fTdcVal, fTdcMultiplicity |-> fTdcMultiplicity,
           crashed |-> crashed ]

Builds == { "trap", "neighbour" }

\* a[i] = v for a C array member: in bounds it is the assignment; out of
\* bounds it is undefined behaviour, and what happens is a property of the
\* build: the store traps (a hardened build, or an unmapped address), or it
\* goes to the address computed, which is a slot of the array lying there
\* or, past either end of the five arrays, memory that is no array slot.
Write(m, a, i, v) ==
    IF m.crashed THEN m
    ELSE IF i >= 0 /\ i < Capacity[a] THEN [m EXCEPT ![a][i] = v]
    ELSE IF build = "trap" THEN [m EXCEPT !.crashed = TRUE]
    ELSE LET flat == Base[a] + i IN
         IF flat < 0 \/ flat >= ObjectEnd THEN m
         ELSE [m EXCEPT ![ArrayAt[flat]][flat - Base[ArrayAt[flat]]] = v]

(***************************************************************************)
(* Raw hits (THcTrigRawHit): plane, counter ("bar" number) and the samples *)
(* of the two signals, signal 0 the ADC and signal 1 the TDC.              *)
(***************************************************************************)
AdcCounters == { 1, 3, 101 }
TdcCounters == { 1 }
Samples == { 1, 2 }

\* The hit whose samples are tagged k: every accessor returns another value.
RawHit(plane, counter, k) ==
    [ fPlane |-> plane, fCounter |-> counter,
      fData |-> << 10 * k + 1, 10 * k + 2 >>,
      fAdcPedestal |-> << 10 * k + 3, 10 * k + 4 >>,
      fMultiplicity |-> << 10 * k + 5, 10 * k + 6 >> ]

GetData(hit, signal, sample) == hit.fData[signal + 1]
GetAdcPedestal(hit, signal) == hit.fAdcPedestal[signal + 1]
GetMultiplicity(hit, signal) == hit.fMultiplicity[signal + 1]

HitSet ==
    { RawHit(1, c, k) : c \in AdcCounters, k \in Samples }
    \cup { RawHit(2, c, k) : c \in TdcCounters, k \in Samples }
    \cup { RawHit(3, 1, 1) }

RECURSIVE SeqsUpTo(_, _)
SeqsUpTo(S, n) ==
    IF n = 0 THEN { << >> }
    ELSE LET shorter == SeqsUpTo(S, n - 1)
         IN shorter \cup { Append(s, x) : s \in { t \in shorter : Len(t) = n - 1 }, x \in S }

\* Events that abort late: MaxHits hits on ADC channel 1, then a hit of a
\* plane that does not exist.
AbortedHitLists ==
    { Append(s, RawHit(3, 1, 1)) :
        s \in { t \in SeqsUpTo({ RawHit(1, 1, k) : k \in Samples }, MaxHits) :
                  Len(t) = MaxHits } }

HitLists == SeqsUpTo(HitSet, MaxHits) \cup AbortedHitLists

(***************************************************************************)
(* THcTrigDet::Decode.                                                     *)
(***************************************************************************)
\* A loop body that reads each plane from the other plane's signal.
ProcessHitOtherSignal(m, hit) ==
    IF hit.fPlane = 1 THEN
        LET m1 == Write(m, "fAdcVal", hit.fCounter - 1, GetData(hit, 1, 0))
            m2 == Write(m1, "fAdcPedestal", hit.fCounter - 1, GetAdcPedestal(hit, 1))
        IN Write(m2, "fAdcMultiplicity", hit.fCounter - 1, GetMultiplicity(hit, 1))
    ELSE
        LET m1 == Write(m, "fTdcVal", hit.fCounter - 1, GetData(hit, 0, 0))
        IN Write(m1, "fTdcMultiplicity", hit.fCounter - 1, GetMultiplicity(hit, 0))

\* The body of the while loop for one hit with plane 1 or 2.
ProcessHit(m, hit) ==
    IF hit.fPlane = 1 THEN
        LET m1 == Write(m, "fAdcVal", hit.fCounter - 1, GetData(hit, 0, 0))
            m2 == Write(m1, "fAdcPedestal", hit.fCounter - 1, GetAdcPedestal(hit, 0))
        IN Write(m2, "fAdcMultiplicity", hit.fCounter - 1, GetMultiplicity(hit, 0))
    ELSE
        LET m1 == Write(m, "fTdcVal", hit.fCounter - 1, GetData(hit, 1, 0))
        IN Write(m1, "fTdcMultiplicity", hit.fCounter - 1, GetMultiplicity(hit, 1))

\* A Decode that reports the number of hits it processed.
DecodeReturnNumHits(numHits) == numHits

\* The status Decode returns after the loop.
DecodeReturn(numHits) == 0

RECURSIVE DecodeLoopRollback(_, _, _)
\* A loop that undoes the stores of the call when it throws.
DecodeLoopRollback(m, hits, iHit) ==
    IF m.crashed THEN
        [ store |-> m, iHit |-> iHit, outcome |-> "crashed", ret |-> -1 ]
    ELSE IF ~(iHit < Len(hits)) THEN
        [ store |-> m, iHit |-> iHit, outcome |-> "returned", ret |-> 0 ]
    ELSE LET hit == hits[iHit + 1] IN
        IF hit.fPlane = 1 \/ hit.fPlane = 2
        THEN LET r == DecodeLoopRollback(ProcessHit(m, hit), hits, iHit + 1)
             IN IF r.outcome = "out_of_range" THEN [r EXCEPT !.store = m] ELSE r
        ELSE [ store |-> m, iHit |-> iHit, outcome |-> "out_of_range", ret |-> -1 ]

RECURSIVE DecodeLoop(_, _, _)
\* The while loop from hit number iHit (0-based, as in the source) on: the
\* store it leaves, the hit it stopped at, how it ended and what it returned.
DecodeLoop(m, hits, iHit) ==
    IF m.crashed THEN
        [ store |-> m, iHit |-> iHit, outcome |-> "crashed", ret |-> -1 ]
    ELSE IF ~(iHit < Len(hits)) THEN
        [ store |-> m, iHit |-> iHit, outcome |-> "returned",
          ret |-> DecodeReturn(Len(hits)) ]
    ELSE LET hit == hits[iHit + 1] IN
        IF hit.fPlane = 1 \/ hit.fPlane = 2
        THEN DecodeLoop(ProcessHit(m, hit), hits, iHit + 1)
        ELSE [ store |-> m, iHit |-> iHit, outcome |-> "out_of_range", ret |-> -1 ]

(***************************************************************************)
(* THcTrigDet::Clear.                                                      *)
(***************************************************************************)
\* A reset loop whose body reads a[i] -= 1.0 for a[i] = 0.0.
ClearSlotDecrement(m, a, i) ==
    Write(m, a, i, IF i \in DOMAIN m[a] THEN m[a][i] - 1 ELSE 0)

\* The assignment in the body of a reset loop.
ClearSlot(m, a, i) == Write(m, a, i, 0)

RECURSIVE ClearLoop(_, _, _, _)
\* for (int i = from; i < n; ++i) a[i] = 0.0;  The slots are reset in the
\* order of the loop, the recursion halving the range only to stay shallow.
ClearLoop(m, a, from, n) ==
    IF ~(from < n) THEN m
    ELSE IF n - from = 1 THEN ClearSlot(m, a, from)
    ELSE LET mid == from + ((n - from) \div 2)
             done == ClearLoop(m, a, from, mid)
         IN IF done.crashed THEN done ELSE ClearLoop(done, a, mid, n)

ClearStore(m) ==
    LET adc == ClearLoop(m, "fAdcVal", 0, fNumAdc)
    IN IF adc.crashed THEN adc ELSE ClearLoop(adc, "fTdcVal", 0, fNumTdc)

(***************************************************************************)
(* The parameter file: two counts and two strings of names. A string is a  *)
(* sequence of characters, the character 0 standing for a blank.           *)
(***************************************************************************)
Blank == 0

\* "1 2 ... n": n one-letter names with a blank between them.
NameString(n) ==
    IF n <= 0 THEN << >>
    ELSE [ i \in 1..(2 * n - 1) |-> IF i % 2 = 1 THEN (i + 1) \div 2 ELSE Blank ]

\* What is known of a stretch of a string: whether it holds a blank, the
\* letters before its first blank, the whole words between its first and
\* last blank, and the letters after its last blank.
OneChar(c) ==
    IF c = Blank
    THEN [ blank |-> TRUE, lead |-> << >>, words |-> << >>, trail |-> << >> ]
    ELSE [ blank |-> FALSE, lead |-> << c >>, words |-> << >>, trail |-> << >> ]

WordIfAny(w) == IF w = << >> THEN << >> ELSE << w >>

JoinPieces(L, R) ==
    IF ~L.blank /\ ~R.blank THEN
        [ blank |-> FALSE, lead |-> L.lead \o R.lead, words |-> << >>, trail |-> << >> ]
    ELSE IF ~L.blank THEN
        [ blank |-> TRUE, lead |-> L.lead \o R.lead, words |-> R.words, trail |-> R.trail ]
    ELSE IF ~R.blank THEN
        [ blank |-> TRUE, lead |-> L.lead, words |-> L.words, trail |-> L.trail \o R.lead ]
    ELSE
        [ blank |-> TRUE, lead |-> L.lead,
          words |-> L.words \o WordIfAny(L.trail \o R.lead) \o R.words,
          trail |-> R.trail ]

RECURSIVE Piece(_, _, _)
Piece(s, lo, hi) ==
    IF lo = hi THEN OneChar(s[lo])
    ELSE LET mid == lo + ((hi - lo) \div 2)
         IN JoinPieces(Piece(s, lo, mid), Piece(s, mid + 1, hi))

\* The words of s: its maximal runs of letters, in order.
vsplit(s) ==
    IF Len(s) = 0 THEN << >>
    ELSE LET p == Piece(s, 1, Len(s))
         IN WordIfAny(p.lead) \o p.words \o WordIfAny(p.trail)

\* The parameter file with na ADC and nt TDC channels and x names more (or,
\* x negative, fewer) than channels.
Config(na, nt, x) ==
    [ numAdc |-> na, numTdc |-> nt,
      adcNames |-> NameString(na + x), tdcNames |-> NameString(nt + x) ]

Configs ==
    { Config(na, 1, 0) : na \in { -1, 2, 101, 302 } }
    \cup { Config(2, 1, x) : x \in { -1, 1 } }

(***************************************************************************)
(* THcTrigDet::DefineVariables.                                            *)
(***************************************************************************)
\* The three RVarDef entries of ADC channel i (0-based).
AdcEntries(names, i) ==
    << [ name |-> << names[i + 1], "_adc" >>, var |-> << "fAdcVal", i >> ],
       [ name |-> << names[i + 1], "_adcPed" >>, var |-> << "fAdcPedestal", i >> ],
       [ name |-> << names[i + 1], "_adcMult" >>, var |-> << "fAdcMultiplicity", i >> ] >>

\* The two RVarDef entries of TDC channel i (0-based).
TdcEntries(names, i) ==
    << [ name |-> << names[i + 1], "_tdc" >>, var |-> << "fTdcVal", i >> ],
       [ name |-> << names[i + 1], "_tdcMult" >>, var |-> << "fTdcMultiplicity", i >> ] >>

RECURSIVE AdcVarDefs(_, _, _)
\* The entries the ADC loop pushes for channels from .. n-1, in its order.
AdcVarDefs(names, from, n) ==
    IF ~(from < n) THEN << >>
    ELSE IF n - from = 1 THEN AdcEntries(names, from)
    ELSE LET mid == from + ((n - from) \div 2)
         IN AdcVarDefs(names, from, mid) \o AdcVarDefs(names, mid, n)

RECURSIVE TdcVarDefs(_, _, _)
\* The entries the TDC loop pushes for channels from .. n-1, in its order.
TdcVarDefs(names, from, n) ==
    IF ~(from < n) THEN << >>
    ELSE IF n - from = 1 THEN TdcEntries(names, from)
    ELSE LET mid == from + ((n - from) \div 2)
         IN TdcVarDefs(names, from, mid) \o TdcVarDefs(names, mid, n)

\* The list DefineVariables builds and hands to DefineVarsFromList. The
\* names and counts it is built from are set by the one ReadDatabase that
\* precedes it, so the list is kept as this function of them.
fVars ==
    IF fVarsDefined
    THEN AdcVarDefs(fAdcNames, 0, fNumAdc) \o TdcVarDefs(fTdcNames, 0, fNumTdc)
    ELSE << >>

\* How DefineVariables(kDefine) ends on a detector not yet set up:
\* std::vector<TString>(n) throws std::length_error for a negative n, and
\* names.at(i) throws std::out_of_range when there are fewer names than n.
DefineVariablesOutcome(numAdc, adcNames, numTdc, tdcNames) ==
    IF numAdc < 0 THEN "length_error"
    ELSE IF Len(adcNames) < numAdc THEN "out_of_range"
    ELSE IF numTdc < 0 THEN "length_error"
    ELSE IF Len(tdcNames) < numTdc THEN "out_of_range"
    ELSE "kOK"

(***************************************************************************)
(* The state after THcTrigDet(name, description, app): counts 0, no names, *)
(* the five arrays value-initialized.                                       *)
(***************************************************************************)
Zeroes(n) == [ i \in 0..(n - 1) |-> 0 ]

Init ==
    /\ fStatus = "kNotinit"
    /\ fIsSetup = FALSE
    /\ fNumAdc = 0 /\ fNumTdc = 0
    /\ fAdcNames = << >> /\ fTdcNames = << >>
    /\ fAdcVal = Zeroes(fMaxAdcChannels)
    /\ fAdcPedestal = Zeroes(fMaxAdcChannels)
    /\ fAdcMultiplicity = Zeroes(fMaxAdcChannels)
    /\ fTdcVal = Zeroes(fMaxTdcChannels)
    /\ fTdcMultiplicity = Zeroes(fMaxTdcChannels)
    /\ fVarsDefined = FALSE
    /\ build \in Builds
    /\ crashed = FALSE
    /\ lastCall = "none" /\ prevCall = "none"
    /\ lastHits = << >>
    /\ lastOutcome = "none"
    /\ lastReturn = -1
    /\ nEvents = 0

\* The value Init gives every value slot.
InitValue == -1

\* An initializing loop that stops one slot short: i < n - 1.
InitLoopOneShort(a, n) == [ i \in DOMAIN a |-> IF i < n - 1 THEN InitValue ELSE a[i] ]

\* for (int i=0; i<n; ++i) a[i] = -1.0;  with n the capacity of a.
InitLoop(a, n) == [ i \in DOMAIN a |-> IF i < n THEN InitValue ELSE a[i] ]

(***************************************************************************)
(* THcTrigDet::Init, with the ReadDatabase and DefineVariables it calls    *)
(* through THaDetector::Init. cfg is what the parameter file holds and     *)
(* mapOk whether FillMap finds the detector in the map file.               *)
(***************************************************************************)
DetectorInit(cfg, mapOk) ==
    LET names == [ adc |-> vsplit(cfg.adcNames), tdc |-> vsplit(cfg.tdcNames) ]
        defined == IF fIsSetup THEN "kOK"
                   ELSE DefineVariablesOutcome(cfg.numAdc, names.adc,
                                               cfg.numTdc, names.tdc)
    IN
    /\ lastCall = "none"
    /\ fAdcVal' = InitLoop(fAdcVal, fMaxAdcChannels)
    /\ fTdcVal' = InitLoop(fTdcVal, fMaxTdcChannels)
    /\ fNumAdc' = cfg.numAdc /\ fNumTdc' = cfg.numTdc
    /\ fAdcNames' = names.adc /\ fTdcNames' = names.tdc
    /\ fIsSetup' = TRUE
    /\ fVarsDefined' = (fVarsDefined \/ (~fIsSetup /\ defined = "kOK"))
    /\ fStatus' = IF defined = "kOK" /\ mapOk THEN "kOK" ELSE fStatus
    /\ lastOutcome' = IF defined # "kOK" THEN defined
                      ELSE IF mapOk THEN "kOK" ELSE "kInitError"
    /\ lastCall' = "Init" /\ prevCall' = lastCall
    /\ UNCHANGED << fAdcPedestal, fAdcMultiplicity, fTdcMultiplicity, build,
                    crashed, lastHits, lastReturn, nEvents >>

(***************************************************************************)
(* THcTrigDet::Clear, called by the analyzer before every event.           *)
(***************************************************************************)
Clear ==
    LET m == ClearStore(Store) IN
    /\ fStatus = "kOK" /\ ~crashed
    /\ fAdcVal' = m.fAdcVal
    /\ fAdcPedestal' = m.fAdcPedestal
    /\ fAdcMultiplicity' = m.fAdcMultiplicity
    /\ fTdcVal' = m.fTdcVal
    /\ fTdcMultiplicity' = m.fTdcMultiplicity
    /\ crashed' = m.crashed
    /\ lastCall' = "Clear" /\ prevCall' = lastCall
    /\ lastOutcome' = IF m.crashed THEN "crashed" ELSE "returned"
    /\ UNCHANGED << fStatus, fIsSetup, fNumAdc, fNumTdc, fAdcNames, fTdcNames,
                    fVarsDefined, build, lastHits, lastReturn, nEvents >>

(***************************************************************************)
(* THcTrigDet::Decode on an event whose raw hit list is hits.              *)
(***************************************************************************)
Decode(hits) ==
    LET r == DecodeLoop(Store, hits, 0) IN
    /\ fStatus = "kOK" /\ ~crashed
    /\ nEvents < MaxEvents
    /\ fAdcVal' = r.store.fAdcVal
    /\ fAdcPedestal' = r.store.fAdcPedestal
    /\ fAdcMultiplicity' = r.store.fAdcMultiplicity
    /\ fTdcVal' = r.store.fTdcVal
    /\ fTdcMultiplicity' = r.store.fTdcMultiplicity
    /\ crashed' = r.store.crashed
    /\ lastCall' = "Decode" /\ prevCall' = lastCall
    /\ lastHits' = hits
    /\ lastOutcome' = r.outcome
    /\ lastReturn' = r.ret
    /\ nEvents' = nEvents + 1
    /\ UNCHANGED << fStatus, fIsSetup, fNumAdc, fNumTdc, fAdcNames, fTdcNames,
                    fVarsDefined, build >>

Next ==
    \/ \E cfg \in Configs, mapOk \in BOOLEAN : DetectorInit(cfg, mapOk)
    \/ Clear
    \/ \E hits \in HitLists : Decode(hits)

Spec == Init /\ [][Next]_vars

(***************************************************************************)
(* Notions the properties below are stated in.                             *)
(***************************************************************************)
\* The configured channel count of the kind a plane selects.
Count(plane) == IF plane = 1 THEN fNumAdc ELSE fNumTdc

SupportedPlane(hit) == hit.fPlane = 1 \/ hit.fPlane = 2

\* A hit of a supported plane whose channel is one of the configured ones.
ValidHit(hit) ==
    SupportedPlane(hit) /\ 1 <= hit.fCounter /\ hit.fCounter <= Count(hit.fPlane)

\* Hit number k of hits is the last one of its plane and channel.
IsLastFor(hits, k) ==
    \A j \in (k + 1)..Len(hits) :
        ~(hits[j].fPlane = hits[k].fPlane /\ hits[j].fCounter = hits[k].fCounter)

\* Slot i of array a exists and holds v.
Holds(m, a, i, v) == i \in DOMAIN m[a] /\ m[a][i] = v

\* The slots of its kind at index channel-1 hold what this hit reports.
SlotsMatch(m, hit) ==
    IF hit.fPlane = 1
    THEN /\ Holds(m, "fAdcVal", hit.fCounter - 1, GetData(hit, 0, 0))
         /\ Holds(m, "fAdcPedestal", hit.fCounter - 1, GetAdcPedestal(hit, 0))
         /\ Holds(m, "fAdcMultiplicity", hit.fCounter - 1, GetMultiplicity(hit, 0))
    ELSE /\ Holds(m, "fTdcVal", hit.fCounter - 1, GetData(hit, 1, 0))
         /\ Holds(m, "fTdcMultiplicity", hit.fCounter - 1, GetMultiplicity(hit, 1))

\* The position of the first hit of an unsupported plane, 0 if there is none.
FirstUnsupported(hits) ==
    IF \A k \in 1..Len(hits) : SupportedPlane(hits[k]) THEN 0
    ELSE CHOOSE k \in 1..Len(hits) :
            /\ ~SupportedPlane(hits[k])
            /\ \A j \in 1..(k - 1) : SupportedPlane(hits[j])

WithinCapacity == fNumAdc <= fMaxAdcChannels /\ fNumTdc <= fMaxTdcChannels

\* Every hit of a supported plane addresses a slot that exists.
InsideArrays(hits) ==
    \A k \in 1..Len(hits) :
        SupportedPlane(hits[k]) =>
            /\ 1 <= hits[k].fCounter
            /\ hits[k].fCounter <= Capacity[IF hits[k].fPlane = 1 THEN "fAdcVal" ELSE "fTdcVal"]

\* The configured channel count of the kind an array belongs to.
CountOf(a) == IF a \in { "fTdcVal", "fTdcMultiplicity" } THEN fNumTdc ELSE fNumAdc

\* What an analyzer variable reads: the slot its RVarDef entry names.
ReadVar(m, entry) == m[entry.var[1]][entry.var[2]]

\* The entry is bound to slot i of array a, and that slot exists.
BoundTo(entry, name, suffix, a, i) ==
    /\ entry.name = << name, suffix >>
    /\ entry.var = << a, i >>
    /\ i \in DOMAIN Store[a]

(***************************************************************************)
(* C1. For every hit list whose hits all have plane 1 or 2 and a channel   *)
(* in [1, count] of its kind, Decode runs to completion and every (kind,   *)
(* index) addressed holds the value, pedestal (ADC) and multiplicity of    *)
(* the last hit in input order for it.                                     *)
(***************************************************************************)
C1_LastWriteWins ==
    (lastCall = "Decode" /\ \A k \in 1..Len(lastHits) : ValidHit(lastHits[k]))
    => /\ lastOutcome = "returned"
       /\ \A k \in 1..Len(lastHits) :
             IsLastFor(lastHits, k) => SlotsMatch(Store, lastHits[k])

\* The same for the configurations whose counts do not exceed the capacity.
LastWriteWinsWithinCapacity == WithinCapacity => C1_LastWriteWins

(***************************************************************************)
(* C2. For any hit list with a hit whose plane is neither 1 nor 2, Decode  *)
(* fails with the unsupported-plane error at the first such hit, and       *)
(* writes no slot for that hit or any hit after it: the store is what the  *)
(* hits before it leave.                                                   *)
(***************************************************************************)
FailsFastAtUnsupported ==
    LET first == FirstUnsupported(lastHits') IN
    (lastCall' = "Decode" /\ first > 0)
    => /\ lastOutcome' = "out_of_range"
       /\ Store' = DecodeLoop(Store, SubSeq(lastHits', 1, first - 1), 0).store

\* C2: every Decode step on a hit list with an unsupported plane fails at
\* the first such hit with the unsupported-plane error, nothing written
\* from that hit on.
C2_FailFast == [][FailsFastAtUnsupported]_vars

\* The same for the hit lists whose hits all address slots that exist.
FailFastInsideArrays ==
    [][InsideArrays(lastHits') => FailsFastAtUnsupported]_vars

(***************************************************************************)
(* C3. A hit with plane 1 or 2 whose channel is outside [1, count] of its  *)
(* kind makes Decode fail with an out-of-range-channel IndexError; it is   *)
(* never silently written, clamped or dropped.                             *)
(***************************************************************************)
C3_IndexError ==
    (/\ lastCall = "Decode"
     /\ \E k \in 1..Len(lastHits) :
           /\ SupportedPlane(lastHits[k]) /\ ~ValidHit(lastHits[k])
           /\ \A j \in 1..(k - 1) : ValidHit(lastHits[j]))
    => lastOutcome = "IndexError"

(***************************************************************************)
(* C4. Clear sets to 0 the value, pedestal and multiplicity of every ADC   *)
(* slot and the value and multiplicity of every TDC slot at every index    *)
(* in [0, count) of the kind.                                              *)
(***************************************************************************)
C4_ClearZeroesAll ==
    (lastCall = "Clear" /\ lastOutcome = "returned")
    => \A a \in ArrayNames : \A i \in DOMAIN Store[a] :
          i < CountOf(a) => Store[a][i] = 0

\* What Clear does reset: the value slots below the count.
ClearZeroesValues ==
    (lastCall = "Clear" /\ lastOutcome = "returned")
    => \A a \in { "fAdcVal", "fTdcVal" } : \A i \in DOMAIN Store[a] :
          i < CountOf(a) => Store[a][i] = 0

(***************************************************************************)
(* C5. Clear leaves every slot at an index >= count unchanged, in every    *)
(* array of both kinds.                                                    *)
(***************************************************************************)
ClearKeepsUnconfigured ==
    lastCall' = "Clear"
    => \A a \in ArrayNames : \A i \in DOMAIN Store[a] :
          i >= CountOf(a) => Store'[a][i] = Store[a][i]

\* C5: every Clear step leaves the slots at an index >= count unchanged.
C5_ClearFrame == [][ClearKeepsUnconfigured]_vars

\* The same for the configurations whose counts do not exceed the capacity.
ClearFrameWithinCapacity == [][WithinCapacity => ClearKeepsUnconfigured]_vars

(***************************************************************************)
(* C6. After a successful initialization the ADC and TDC channel counts    *)
(* do not exceed the capacity: a configuration with a larger count is      *)
(* rejected.                                                               *)
(***************************************************************************)
C6_CountWithinCapacity == fStatus = "kOK" => WithinCapacity

(***************************************************************************)
(* C7. After a configuration load that reports success, each kind has      *)
(* exactly as many names as its declared count.                            *)
(***************************************************************************)
C7_NamesMatchCount ==
    fStatus = "kOK" => Len(fAdcNames) = fNumAdc /\ Len(fTdcNames) = fNumTdc

\* What DefineVariables does enforce: no fewer names than channels.
NamesCoverCount ==
    fStatus = "kOK" => Len(fAdcNames) >= fNumAdc /\ Len(fTdcNames) >= fNumTdc

(***************************************************************************)
(* C8. For each configured channel i of each kind, the published slots     *)
(* name_adc, name_adcPed, name_adcMult (ADC) and name_tdc, name_tdcMult    *)
(* (TDC) are bound to storage index i of the value, pedestal and           *)
(* multiplicity arrays, so that after a Decode they read what the last     *)
(* hit on channel i+1 wrote.                                               *)
(***************************************************************************)
PublishedBound ==
    LET defs == fVars IN
    /\ Len(defs) = 3 * fNumAdc + 2 * fNumTdc
    /\ \A i \in 0..(fNumAdc - 1) :
          /\ BoundTo(defs[3 * i + 1], fAdcNames[i + 1], "_adc", "fAdcVal", i)
          /\ BoundTo(defs[3 * i + 2], fAdcNames[i + 1], "_adcPed", "fAdcPedestal", i)
          /\ BoundTo(defs[3 * i + 3], fAdcNames[i + 1], "_adcMult", "fAdcMultiplicity", i)
    /\ \A i \in 0..(fNumTdc - 1) :
          /\ BoundTo(defs[3 * fNumAdc + 2 * i + 1], fTdcNames[i + 1], "_tdc", "fTdcVal", i)
          /\ BoundTo(defs[3 * fNumAdc + 2 * i + 2], fTdcNames[i + 1], "_tdcMult",
                     "fTdcMultiplicity", i)

\* After a Decode that returned, the variables of every configured channel
\* with a hit read what the last hit on it reported.
PublishedReadLastHit ==
    LET defs == fVars IN
    (lastCall = "Decode" /\ lastOutcome = "returned")
    => \A k \in 1..Len(lastHits) :
          LET hit == lastHits[k]
              i == hit.fCounter - 1
          IN (ValidHit(hit) /\ IsLastFor(lastHits, k)) =>
                IF hit.fPlane = 1
                THEN /\ ReadVar(Store, defs[3 * i + 1]) = GetData(hit, 0, 0)
                     /\ ReadVar(Store, defs[3 * i + 2]) = GetAdcPedestal(hit, 0)
                     /\ ReadVar(Store, defs[3 * i + 3]) = GetMultiplicity(hit, 0)
                ELSE /\ ReadVar(Store, defs[3 * fNumAdc + 2 * i + 1]) = GetData(hit, 1, 0)
                     /\ ReadVar(Store, defs[3 * fNumAdc + 2 * i + 2])
                            = GetMultiplicity(hit, 1)

\* C8: after a successful Init the published slots are bound to storage
\* index i and, after a Decode, read what the last hit on channel i+1 wrote.
C8_PublishedSlots == fStatus = "kOK" => PublishedBound /\ PublishedReadLastHit

\* The same for the configurations whose counts do not exceed the capacity
\* and the events whose hits all address slots that exist.
PublishedSlotsInsideArrays ==
    (fStatus = "kOK" /\ WithinCapacity /\ InsideArrays(lastHits))
    => PublishedBound /\ PublishedReadLastHit

(***************************************************************************)
(* C9. Clear is idempotent: a Clear that follows a Clear with no Decode in *)
(* between leaves the whole store as the first one left it.                *)
(***************************************************************************)
C9_ClearIdempotent ==
    [][(lastCall = "Clear" /\ lastCall' = "Clear") => Store' = Store]_vars

\* Two Clear calls in a row on a store an event has filled.
C9_Witness ==
    /\ lastCall = "Clear" /\ prevCall = "Clear"
    /\ nEvents > 0
    /\ fAdcPedestal[0] # 0

(***************************************************************************)
(* C10. Every Decode call that returns returns 0, whatever the hits it     *)
(* processed.                                                              *)
(***************************************************************************)
C10_DecodeReturnsZero ==
    (lastCall = "Decode" /\ lastOutcome = "returned") => lastReturn = 0

\* A Decode that returned after processing as many hits as an event holds.
C10_Witness ==
    /\ lastCall = "Decode" /\ lastOutcome = "returned"
    /\ Len(lastHits) = MaxHits

(***************************************************************************)
(* C11. No call writes a slot at an index outside [0, capacity): a write   *)
(* whose index channel-1 is below 0 or at or above the capacity fails with *)
(* an IndexError instead of touching memory.                               *)
(***************************************************************************)
\* A hit of a supported plane whose index channel-1 is no slot of its kind.
OutsideArrays(hit) ==
    /\ SupportedPlane(hit)
    /\ ~(/\ 1 <= hit.fCounter
         /\ hit.fCounter <= Capacity[IF hit.fPlane = 1 THEN "fAdcVal" ELSE "fTdcVal"])

\* The position of the first hit that addresses no slot, when Decode gets
\* to it (no hit of an unsupported plane before it); 0 if there is none.
FirstOutside(hits) ==
    IF \E k \in 1..Len(hits) :
          /\ OutsideArrays(hits[k])
          /\ \A j \in 1..(k - 1) : SupportedPlane(hits[j])
    THEN CHOOSE k \in 1..Len(hits) :
            /\ OutsideArrays(hits[k])
            /\ \A j \in 1..(k - 1) : SupportedPlane(hits[j]) /\ ~OutsideArrays(hits[j])
    ELSE 0

WriteIsBoundsChecked ==
    LET first == FirstOutside(lastHits') IN
    (lastCall' = "Decode" /\ first > 0)
    => /\ lastOutcome' = "IndexError"
       /\ Store' = DecodeLoop(Store, SubSeq(lastHits', 1, first - 1), 0).store

\* C11: every Decode step that gets to a hit whose index channel-1 is
\* outside [0, capacity) fails there with an IndexError, the store being
\* what the hits before it leave.
C11_BoundsChecked == [][WriteIsBoundsChecked]_vars

(***************************************************************************)
(* C12. Event isolation: after Clear followed by a Decode that completes,  *)
(* the value, pedestal and multiplicity of every configured slot (index in *)
(* [0, count)) depend only on the hits of the current event, whatever the  *)
(* earlier events were: they are what the same Clear and Decode leave on a *)
(* detector that has seen no earlier event.                                *)
(***************************************************************************)
\* The store Init leaves on a newly constructed detector.
StoreAfterInit ==
    [ fAdcVal |-> InitLoop(Zeroes(fMaxAdcChannels), fMaxAdcChannels),
      fAdcPedestal |-> Zeroes(fMaxAdcChannels),
      fAdcMultiplicity |-> Zeroes(fMaxAdcChannels),
      fTdcVal |-> InitLoop(Zeroes(fMaxTdcChannels), fMaxTdcChannels),
      fTdcMultiplicity |-> Zeroes(fMaxTdcChannels),
      crashed |-> FALSE ]

\* The store Clear and then Decode of hits leave as the first event of a run.
FirstEventStore(hits) == DecodeLoop(ClearStore(StoreAfterInit), hits, 0).store

\* The configured slots of the arrays in A are those of the first-event store.
ConfiguredSlotsIsolated(A) ==
    (lastCall = "Decode" /\ prevCall = "Clear" /\ lastOutcome = "returned")
    => LET first == FirstEventStore(lastHits) IN
       \A a \in A : \A i \in DOMAIN Store[a] :
          i < CountOf(a) => Store[a][i] = first[a][i]

C12_EventIsolation == ConfiguredSlotsIsolated(ArrayNames)

\* What Clear does isolate: the value slots.
EventIsolationOfValues == ConfiguredSlotsIsolated({ "fAdcVal", "fTdcVal" })

(***************************************************************************)
(* C13. Init sets every value slot of both kinds over the whole capacity   *)
(* [0, 100) to the sentinel -1.0: after Init and before the first Clear or *)
(* Decode every value slot reads -1.0, whatever the configured counts.     *)
(***************************************************************************)
C13_InitSentinel ==
    lastCall = "Init"
    => /\ \A i \in 0..(fMaxAdcChannels - 1) : Holds(Store, "fAdcVal", i, -1)
       /\ \A i \in 0..(fMaxTdcChannels - 1) : Holds(Store, "fTdcVal", i, -1)

\* An Init that succeeded with counts below the capacity, nothing called since.
C13_Witness ==
    /\ lastCall = "Init" /\ fStatus = "kOK"
    /\ 0 < fNumAdc /\ fNumAdc < fMaxAdcChannels
    /\ 0 < fNumTdc /\ fNumTdc < fMaxTdcChannels
    /\ fAdcVal[fNumAdc] = -1 /\ fTdcVal[fNumTdc] = -1

(***************************************************************************)
(* C14. Dispatch by plane selects the sub-signal: a plane-1 hit writes the *)
(* value, pedestal and multiplicity it reports for sub-signal 0 into the   *)
(* ADC arrays, and a plane-2 hit writes the value and multiplicity it      *)
(* reports for sub-signal 1 into the TDC arrays, both at index channel-1.  *)
(* It is stated of the last hit a Decode processed, no later hit having    *)
(* written since, where the arrays of its kind have a slot at that index.  *)
(***************************************************************************)
\* The number of hits the last Decode processed before it returned or threw.
NumProcessed ==
    IF lastOutcome = "returned" THEN Len(lastHits)
    ELSE IF lastOutcome = "out_of_range" THEN FirstUnsupported(lastHits) - 1
    ELSE 0

C14_DispatchBySubSignal ==
    (lastCall = "Decode" /\ NumProcessed > 0 /\ ~OutsideArrays(lastHits[NumProcessed]))
    => SlotsMatch(Store, lastHits[NumProcessed])

\* A Decode that returned after a hit of plane 1 and then a hit of plane 2
\* on the same channel: both kinds hold what their hit reported.
C14_Witness ==
    /\ lastCall = "Decode" /\ lastOutcome = "returned" /\ Len(lastHits) = 2
    /\ lastHits[1].fPlane = 1 /\ lastHits[2].fPlane = 2
    /\ lastHits[1].fCounter = lastHits[2].fCounter
    /\ SlotsMatch(Store, lastHits[1]) /\ SlotsMatch(Store, lastHits[2])

(***************************************************************************)
(* C15. Processing one hit in Decode changes only the slots at index       *)
(* channel-1 of the hit's own kind: a plane-1 hit changes no TDC slot, a   *)
(* plane-2 hit changes no ADC slot, and no slot at another index changes;  *)
(* hence after Clear followed by Decode of valid hits, the value of every  *)
(* configured channel that received no hit in that event is still 0.       *)
(***************************************************************************)
\* Slot i of array a is a slot of the hit's own kind at index channel-1.
Addresses(hit, a, i) ==
    /\ i = hit.fCounter - 1
    /\ \/ hit.fPlane = 1 /\ a \in { "fAdcVal", "fAdcPedestal", "fAdcMultiplicity" }
       \/ hit.fPlane = 2 /\ a \in { "fTdcVal", "fTdcMultiplicity" }

\* A Decode step changes no slot but those its hits address.
DecodeChangesOwnSlots ==
    lastCall' = "Decode"
    => \A a \in ArrayNames : \A i \in DOMAIN Store[a] :
          Store'[a][i] # Store[a][i]
          => \E k \in 1..Len(lastHits') : Addresses(lastHits'[k], a, i)

\* A Decode step of valid hits right after Clear leaves at 0 the value of
\* the configured channels without a hit.
NoHitStaysZero ==
    (/\ lastCall = "Clear" /\ lastCall' = "Decode"
     /\ \A k \in 1..Len(lastHits') : ValidHit(lastHits'[k]))
    => \A a \in { "fAdcVal", "fTdcVal" } : \A i \in DOMAIN Store[a] :
          (/\ i < CountOf(a)
           /\ \A k \in 1..Len(lastHits') : ~Addresses(lastHits'[k], a, i))
          => Store'[a][i] = 0

\* C15: every Decode step changes only the slots at index channel-1 of the
\* kind of one of its hits, and after Clear leaves at 0 the value of every
\* configured channel without a hit.
C15_DecodeFrame == [][DecodeChangesOwnSlots /\ NoHitStaysZero]_vars

\* The same for the hit lists whose hits all address slots that exist.
DecodeFrameInsideArrays ==
    [][InsideArrays(lastHits') => (DecodeChangesOwnSlots /\ NoHitStaysZero)]_vars

(***************************************************************************)
(* C16. When Decode aborts on a hit with an unsupported plane, the store   *)
(* is not rolled back: every slot written by the hits that precede the     *)
(* offending hit in the same call keeps the value written by the last such *)
(* preceding hit, and all other slots keep the contents they had when      *)
(* Decode was called.                                                      *)
(***************************************************************************)
\* The stores the loop body makes for a hit of plane 1 or 2, in its order.
StoresOf(hit) ==
    IF hit.fPlane = 1
    THEN << [ a |-> "fAdcVal", i |-> hit.fCounter - 1, v |-> GetData(hit, 0, 0) ],
            [ a |-> "fAdcPedestal", i |-> hit.fCounter - 1, v |-> GetAdcPedestal(hit, 0) ],
            [ a |-> "fAdcMultiplicity", i |-> hit.fCounter - 1,
              v |-> GetMultiplicity(hit, 0) ] >>
    ELSE << [ a |-> "fTdcVal", i |-> hit.fCounter - 1, v |-> GetData(hit, 1, 0) ],
            [ a |-> "fTdcMultiplicity", i |-> hit.fCounter - 1,
              v |-> GetMultiplicity(hit, 1) ] >>

\* The slot a store reaches: the slot it names if there is one; past the
\* array's end, on the build that stores at the address computed, the slot
\* lying there; no slot otherwise.
SlotReached(st) ==
    IF st.i >= 0 /\ st.i < Capacity[st.a] THEN << st.a, st.i >>
    ELSE IF build = "neighbour" /\ Base[st.a] + st.i >= 0 /\ Base[st.a] + st.i < ObjectEnd
    THEN LET flat == Base[st.a] + st.i
         IN << ArrayAt[flat], flat - Base[ArrayAt[flat]] >>
    ELSE << >>

\* The stores of hits, each as << hit, store >>, that reach the slot.
StoresReaching(hits, slot) ==
    { w \in (1..Len(hits)) \X (1..3) :
        /\ w[2] <= Len(StoresOf(hits[w[1]]))
        /\ SlotReached(StoresOf(hits[w[1]])[w[2]]) = slot }

\* The slots the stores of hits reach.
SlotsReached(hits) ==
    { SlotReached(StoresOf(hits[w[1]])[w[2]]) :
        w \in { x \in (1..Len(hits)) \X (1..3) : x[2] <= Len(StoresOf(hits[x[1]])) } }
    \ { << >> }

\* The value the last of the stores of hits that reach the slot stored.
LastStored(hits, slot) ==
    LET W == StoresReaching(hits, slot)
        last == CHOOSE w \in W : \A x \in W :
                    x[1] < w[1] \/ (x[1] = w[1] /\ x[2] <= w[2])
    IN StoresOf(hits[last[1]])[last[2]].v

AbortKeepsWrites ==
    LET before == SubSeq(lastHits', 1, FirstUnsupported(lastHits') - 1) IN
    (lastCall' = "Decode" /\ lastOutcome' = "out_of_range")
    => /\ \A slot \in SlotsReached(before) :
             Store'[slot[1]][slot[2]] = LastStored(before, slot)
       /\ \A a \in ArrayNames : \A i \in DOMAIN Store[a] :
             Store'[a][i] # Store[a][i] => << a, i >> \in SlotsReached(before)

\* C16: every Decode step that throws for an unsupported plane leaves in
\* each slot the hits before the offending one stored to the value the last
\* of them stored, and leaves every other slot as it was.
C16_NoRollback == [][AbortKeepsWrites]_vars

\* A Decode that threw after two hits with different samples on one channel
\* of a store that held other values: the second hit's are in the store.
C16_Witness ==
    /\ lastCall = "Decode" /\ lastOutcome = "out_of_range"
    /\ FirstUnsupported(lastHits) = 3
    /\ lastHits[1].fCounter = lastHits[2].fCounter
    /\ lastHits[1] # lastHits[2]
    /\ SlotsMatch(Store, lastHits[2])
    /\ prevCall = "Clear" /\ nEvents = MaxEvents

====
